---- MODULE Spec2Model ----
(***************************************************************************)
(* The SeleniumWebdriver helper of CodeceptJS                              *)
(* (src/lib/helper/SeleniumWebdriver.js): the within-scope rebinding of    *)
(* the browser's find functions, the smart-wait bracket around a query,    *)
(* the resolution of locators into native queries, the text and checkbox   *)
(* assertions, and the hooks that start and quit the browser.              *)
(*                                                                         *)
(* A helper instance (a session) owns a browser (a WebDriver session).     *)
(* The helper never waits for a driver command it issues inside one       *)
(* synchronous block: it schedules the commands and the driver executes    *)
(* them one at a time in the order they were scheduled.  queue[d] is the  *)
(* list of commands scheduled on driver d and not yet executed; Exec(d)   *)
(* is the driver executing the oldest one.                                 *)
(***************************************************************************)
EXTENDS Integers, Sequences, FiniteSets, TLC

\* options.smartWait ranges over 0 .. MaxSmartWait
MaxSmartWait == 2

\* A browser has 1 .. MaxTabs tabs open
MaxTabs == 2

\* The helper instances of the process.  Helper is the one instance a run
\* constructs; Sessions adds a second, independent instance.
Helper == {"s1"}
Sessions == {"s1", "s2"}

\* The page every browser shows: body > a > b.  "#x" matches nothing.
Elements == {"a", "b"}
Locators == {"#a", "#b", "#x"}
Parent(e) == IF e = "b" THEN "a" ELSE "body"
Target(loc) == CASE loc = "#a" -> "a" [] loc = "#b" -> "b" [] OTHER -> "none"

\* The elements a css query for loc finds below root, in document order.
Matches(root, loc) ==
    IF Target(loc) \in Elements
       /\ (root = "body" \/ Parent(Target(loc)) = root)
    THEN << Target(loc) >> ELSE << >>

\* What see / dontSee query besides a context locator: the root element, and
\* every element below the search root.
RootElement == "body"
AllBelow == ".//*"

\* The elements a query for loc finds from search root root, in document order.
\* The search root "body" is the whole document.
Answer(root, loc) ==
    CASE loc = RootElement -> IF root = "body" THEN << "body" >> ELSE << >>
      [] loc = AllBelow -> CASE root = "body" -> << "body", "a", "b" >>
                             [] root = "a" -> << "b" >>
                             [] OTHER -> << >>
      [] OTHER -> Matches(root, loc)

\* el.getText(): the visible text of an element, its own words and then those of
\* the elements inside it.
GetText(e) ==
    CASE e = "body" -> << "R", "A", "B" >>
      [] e = "a" -> << "A", "B" >>
      [] OTHER -> << "B" >>

\* The texts a test looks for.
Needles == {<< "A" >>, << "B" >>, << "A", "B" >>, << "Z" >>}

\* source after els.forEach(el => ... source += '| ' + elText)
RECURSIVE Source(_)
Source(els) ==
    IF els = << >> THEN << >>
    ELSE << "| " >> \o GetText(Head(els)) \o Source(Tail(els))

\* Sequence part occurs in sequence whole as a run of consecutive elements.
Embedded(part, whole) ==
    \E k \in 0 .. Len(whole) - Len(part) :
        \A i \in 1 .. Len(part) : whole[k + i] = part[i]

\* stringIncludes(description)[assertType](text, source): assert passes when
\* source includes text, negate when it does not.
StringIncludes(assertType, text, source) ==
    IF assertType = "assert" THEN Embedded(text, source) ELSE ~ Embedded(text, source)

\* The values browser.findElement / browser.findElements can hold:
\* the driver's own method, a closure over a context element made by
\* _withinBegin, or undefined.
Orig == [kind |-> "orig", sess |-> "none", el |-> "none"]
Undef == [kind |-> "undefined", sess |-> "none", el |-> "none"]
Scoped(d, e) == [kind |-> "scoped", sess |-> d, el |-> e]

\* let withinStore = {}: the keys are absent, reading them gives undefined.
EmptyStore == [has |-> FALSE, elFn |-> Undef, elsFn |-> Undef]

VARIABLES
    withinStore,   \* the module-level withinStore object
    findElement,   \* findElement[s]: this.browser.findElement of helper s
    findElements,  \* findElements[s]: this.browser.findElements of helper s
    context,       \* context[s]: this.context of helper s
    smartWait,     \* smartWait[s]: this.options.smartWait of helper s
    timeout,       \* timeout[d]: the implicit-wait timeout of driver session d
    queue,         \* queue[d]: commands scheduled on driver d, oldest first
    call,          \* call[s]: the latest operation of helper s and its outcome
    dom,           \* dom[n]: the form node n of the page
    run,           \* the latest locator resolution and its outcome
    opts,          \* this.options: restart, keepBrowserState, keepCookies, manualStart
    isRunning,     \* this.isRunning
    browser,       \* the browser session behind this.browser
    phase,         \* where the test run is: which hook comes next
    hook           \* the latest hook and how it ended

vars == << withinStore, findElement, findElements, context, smartWait,
           timeout, queue, call, dom, run, opts, isRunning, browser, phase, hook >>

\* The browser session and the test run.
lifeVars == << opts, isRunning, browser, phase, hook >>

\* What the scope and smart-wait operations leave alone.
formVars == << dom, run, lifeVars >>

\* A helper's state as an operation finds it: its find functions, its context and
\* its driver's implicit-wait timeout.
Snapshot(s) ==
    [elFn |-> findElement[s], elsFn |-> findElements[s], ctx |-> context[s],
     wait |-> timeout[s]]

NoCall ==
    [op |-> "none", status |-> "none", enabled |-> FALSE, fnCalls |-> 0,
     threw |-> FALSE, endedEarly |-> FALSE, ranUnder |-> -1, result |-> << >>,
     assertType |-> "none", text |-> << >>, ctx |-> "none",
     pre |-> [elFn |-> Orig, elsFn |-> Orig, ctx |-> "body", wait |-> 0]]

\* A new record for operation op of helper s, with the helper's state before it.
NewCall(s, op, status) ==
    [NoCall EXCEPT !.op = op, !.status = status, !.pre = Snapshot(s)]

Init ==
    /\ withinStore = EmptyStore
    /\ findElement = [s \in Sessions |-> Orig]
    /\ findElements = [s \in Sessions |-> Orig]
    /\ context = [s \in Sessions |-> "body"]
    /\ smartWait \in [Sessions -> 0 .. MaxSmartWait]
    /\ timeout = [s \in Sessions |-> 0]
    /\ queue = [s \in Sessions |-> << >>]
    /\ call = [s \in Sessions |-> NoCall]

\* A helper starts an asynchronous operation after the previous one has settled
\* and the driver has executed what it scheduled.
Idle(s) == call[s].status # "pending" /\ queue[s] = << >>

\* manage().timeouts().implicitlyWait(ms)
WaitCmd(s, ms) ==
    [type |-> "implicitlyWait", ms |-> ms, loc |-> "none", root |-> "body",
     single |-> FALSE, owner |-> s, then |-> "none"]

\* A find through find function fn of helper s: the driver's method searches the
\* document, a closure searches below its context element.
FindCmd(s, fn, loc, single, then) ==
    [type |-> "find", ms |-> 0, loc |-> loc,
     root |-> IF fn.kind = "scoped" THEN fn.el ELSE "body",
     single |-> single, owner |-> s, then |-> then]

\* The driver that executes a find made through fn by helper s: a closure calls
\* its context element, which belongs to the driver that found it.
DriverOf(s, fn) == IF fn.kind = "scoped" THEN fn.sess ELSE s

Schedule(q, d, cmds) == [q EXCEPT ![d] = q[d] \o cmds]

----
\* The form on the page, and locators as a test writes them.

\* The form nodes of the page, in document order; n2 lies inside n1.  The label of a node is its
\* visible text (the text of its label, for an input); its id equals its name.
Nodes == {"n1", "n2"}
DocOrder == << "n1", "n2" >>
Texts == {"opt", "option"}
NodeKinds ==
    [tag : {"div", "option"}, label : {""} \cup Texts, name : {""} \cup Texts,
     selected : BOOLEAN]

\* Text a contains text b.
Contains(a, b) == a = b \/ (a = "option" /\ b = "opt")

\* A locator argument: a string (key = "") made of a prefix and a body, "#" \o
\* "option" being "#option", or a single-key descriptor {key: string}.
Str(p, b) == [key |-> "", prefix |-> p, body |-> b]
Obj(k, p, b) == [key |-> k, prefix |-> p, body |-> b]
FuzzyLocators == {Str("", t) : t \in Texts}
StringLocators ==
    FuzzyLocators \cup {Str("#", t) : t \in Texts} \cup {Str("//", "option")}
ObjLocators ==
    {Obj(k, "", t) : k \in {"id", "name"}, t \in Texts}
    \cup {Obj("css", "#", t) : t \in Texts}
    \cup {Obj("css", "", "option"), Obj("xpath", "//", "option")}
RawLocators == StringLocators \cup ObjLocators

\* new Locator(locator): the type, the string operand and the fuzzy flag.
Classify(raw) ==
    LET type == IF raw.key # "" THEN raw.key
                ELSE IF raw.prefix \in {"#", "."} THEN "css"
                ELSE IF raw.prefix \in {"//", "("} THEN "xpath"
                ELSE ""
    IN  [type |-> type, value |-> Str(raw.prefix, raw.body), fuzzy |-> type = ""]

\* global.by[type](value), and the value false that stands for no strategy.
By(type, value) == [using |-> type, gen |-> "by", value |-> value]
NoBy == [using |-> "none", gen |-> "none", value |-> Str("", "")]

\* guessLocator(locator)
GuessLocator(raw) ==
    LET l == Classify(raw)
    IN  IF l.fuzzy THEN NoBy
        ELSE IF l.type # "" THEN By(l.type, l.value)
        ELSE NoBy

\* xpathLocator.literal(text): the text as a quoted XPath string literal.
Literal(str) == [quote |-> "'", text |-> str]

\* global.by.xpath(Locator.<gen>(literal))
XPath(gen, lit) == [using |-> "xpath", gen |-> gen, value |-> lit]

\* Node n is what native query by selects.
Hit(by, n) ==
    LET v == by.value
    IN  CASE by.gen = "by" /\ by.using = "css" ->
                 \/ v.prefix = "#" /\ dom[n].name = v.body
                 \/ v.prefix = "" /\ dom[n].tag = v.body
          [] by.gen = "by" /\ by.using = "xpath" ->
                 v.prefix = "//" /\ dom[n].tag = v.body
          [] by.gen = "by" /\ by.using \in {"id", "name"} ->
                 v.prefix = "" /\ dom[n].name = v.body
          [] by.gen \in {"field.labelEquals", "clickable.narrow"} ->
                 v.text.prefix = "" /\ dom[n].label = v.text.body
          [] by.gen \in {"field.labelContains", "clickable.wide", "checkable.byText"} ->
                 /\ v.text.prefix = "" /\ dom[n].label # ""
                 /\ Contains(dom[n].label, v.text.body)
          [] by.gen \in {"field.byName", "checkable.byName"} ->
                 v.text.prefix = "" /\ dom[n].name = v.text.body
          [] OTHER -> FALSE

\* The nodes native query by selects, in document order.
Found(by) == SelectSeq(DocOrder, LAMBDA n : Hit(by, n))

\* What a resolver has done so far: the native queries it has issued, the
\* elements the last one gave, and the error the last one failed with.
Start == [log |-> << >>, els |-> << >>, err |-> "none"]

\* What a query can be made on: the browser, which searches the document, an
\* element, which searches the nodes inside it, or a promise that has not been
\* waited for, which has no find function.
Document == "document"
Pending == "promise"
Inside(n, m) == m = Document \/ (m = "n1" /\ n = "n2")

\* The nodes native query by selects when made on m, in document order.
FoundIn(m, by) == SelectSeq(Found(by), LAMBDA n : Inside(n, m))

\* m.findElements(by) (single = FALSE) or m.findElement(by) issued after o.
\* Nothing is issued once an error is on its way to the caller; calling a find
\* function a promise does not have throws a TypeError; the driver refuses what
\* is not a strategy, and findElement fails when nothing matches.
IssueIn(o, m, by, single) ==
    LET err == IF m = Pending THEN "TypeError"
               ELSE IF by.using = "none" THEN "InvalidLocator"
               ELSE IF single /\ FoundIn(m, by) = << >> THEN "NoSuchElement"
               ELSE "none"
    IN  IF o.err # "none" THEN o
        ELSE [log |-> IF m = Pending THEN o.log
                      ELSE Append(o.log, [by |-> by, single |-> single]),
              els |-> IF err # "none" THEN << >>
                      ELSE IF single THEN << FoundIn(m, by)[1] >>
                      ELSE FoundIn(m, by),
              err |-> err]

\* client.findElements(by) (single = FALSE) or client.findElement(by) issued
\* on the browser after o.
Issue(o, by, single) == IssueIn(o, Document, by, single)

\* The record of a resolution: the operation, its locator and its outcome.
RunOf(op, loc, o) ==
    [op |-> op, loc |-> loc, log |-> o.log, els |-> o.els, err |-> o.err,
     status |-> IF o.err = "none" THEN "resolved" ELSE "rejected",
     asserted |-> FALSE, prefix |-> "none", suffix |-> "none", msg |-> << >>,
     did |-> << >>, ctx |-> Str("", "")]

NoRun == RunOf("none", Str("", ""), Start)

\* The states the form can be in when a test begins.
InitForm == dom \in [Nodes -> NodeKinds] /\ run = NoRun

\* A page without form nodes of interest.
BlankForm ==
    /\ dom = [n \in Nodes |-> [tag |-> "div", label |-> "", name |-> "", selected |-> FALSE]]
    /\ run = NoRun

\* What a locator resolution leaves alone.
helperVars ==
    << withinStore, findElement, findElements, context, smartWait, timeout, queue, call,
       lifeVars >>

----
\* The browser session and the hooks the test run calls.

\* The configurations of the four options the hooks read.
Options ==
    [restart : BOOLEAN, keepBrowserState : BOOLEAN, keepCookies : BOOLEAN,
     manualStart : BOOLEAN]

\* The defaults the constructor sets.
DefaultOptions ==
    [restart |-> TRUE, keepBrowserState |-> FALSE, keepCookies |-> FALSE,
     manualStart |-> FALSE]

\* No browser built yet, and the browser this.browserBuilder.build() gives.
\* open: the session has been started and browser.quit() has not been called on
\* it; quits: the calls of browser.quit() on it; lost: the session was terminated
\* or its window closed from outside.
NoBrowser ==
    [open |-> FALSE, cookies |-> FALSE, storage |-> FALSE, tabs |-> 1, quits |-> 0,
     lost |-> FALSE]
NewBrowser ==
    [open |-> TRUE, cookies |-> FALSE, storage |-> FALSE, tabs |-> 1, quits |-> 0,
     lost |-> FALSE]

\* this.browser.quit()
Quit(b) == [b EXCEPT !.open = FALSE, !.quits = b.quits + 1]

NoHook == [name |-> "none", status |-> "none"]

\* The helper after its construction and _init, before the first suite.
InitLife ==
    /\ opts \in Options
    /\ isRunning = FALSE
    /\ browser = NoBrowser
    /\ phase = "suite"
    /\ hook = NoHook

\* ... under the default options.
DefaultLife == InitLife /\ opts = DefaultOptions

\* What a hook leaves alone.
pageVars ==
    << withinStore, findElement, findElements, context, smartWait, timeout, queue, call,
       dom, run >>

\* _startBrowser(): builds a browser and sets isRunning once it is set up.
StartBrowserStep ==
    /\ browser' = NewBrowser
    /\ isRunning' = TRUE

\* _startBrowser() called by a test's own code, as manualStart asks for.
StartBrowser ==
    /\ opts.manualStart /\ phase = "test" /\ ~ isRunning
    /\ StartBrowserStep
    /\ hook' = [name |-> "startBrowser", status |-> "resolved"]
    /\ UNCHANGED << opts, phase >> /\ UNCHANGED pageVars

\* _beforeSuite()
BeforeSuite ==
    /\ phase = "suite"
    /\ phase' = "ready"
    /\ IF ~ opts.restart /\ ~ opts.manualStart /\ ~ isRunning
       THEN StartBrowserStep
       ELSE UNCHANGED << browser, isRunning >>
    /\ hook' = [name |-> "beforeSuite", status |-> "resolved"]
    /\ UNCHANGED opts /\ UNCHANGED pageVars

\* The test run starts a test.  The helper defines no _before hook: nothing of
\* the helper runs between _beforeSuite or the last _after and the test's steps.
Before ==
    /\ phase = "ready"
    /\ phase' = "test"
    /\ hook' = [name |-> "before", status |-> "resolved"]
    /\ UNCHANGED << opts, isRunning, browser >> /\ UNCHANGED pageVars

\* setCookie(cookie)
SetCookie ==
    /\ phase = "test" /\ browser.open /\ ~ browser.lost
    /\ browser' = [browser EXCEPT !.cookies = TRUE]
    /\ UNCHANGED << opts, isRunning, phase, hook >> /\ UNCHANGED pageVars

\* executeScript(fn) with a script that writes to localStorage
ExecuteScript ==
    /\ phase = "test" /\ browser.open /\ ~ browser.lost
    /\ browser' = [browser EXCEPT !.storage = TRUE]
    /\ UNCHANGED << opts, isRunning, phase, hook >> /\ UNCHANGED pageVars

\* click(locator) on a link that opens a new tab
ClickOpensTab ==
    /\ phase = "test" /\ browser.open /\ ~ browser.lost /\ browser.tabs < MaxTabs
    /\ browser' = [browser EXCEPT !.tabs = browser.tabs + 1]
    /\ UNCHANGED << opts, isRunning, phase, hook >> /\ UNCHANGED pageVars

\* closeOtherTabs(): handles is the promise getAllWindowHandles() returns, not
\* the list, so handles.shift() throws before any tab is closed.
CloseOtherTabs(b) == [tabs |-> b.tabs, threw |-> TRUE]

\* _after()
After ==
    /\ phase = "test"
    /\ phase' = "ready"
    /\ IF ~ isRunning
       THEN /\ UNCHANGED << isRunning, browser >>
            /\ hook' = [name |-> "after", status |-> "resolved"]
       ELSE IF opts.restart
       THEN /\ isRunning' = FALSE
            /\ browser' = Quit(browser)
            /\ hook' = [name |-> "after", status |-> "resolved"]
       ELSE IF opts.keepBrowserState
       THEN /\ UNCHANGED << isRunning, browser >>
            /\ hook' = [name |-> "after", status |-> "resolved"]
       ELSE IF opts.keepCookies
       THEN /\ isRunning' = isRunning
            /\ browser' = [browser EXCEPT !.storage = FALSE,
                                          !.tabs = CloseOtherTabs(browser).tabs]
            /\ hook' = [name |-> "after",
                        status |-> IF CloseOtherTabs(browser).threw THEN "rejected"
                                   ELSE "resolved"]
       ELSE /\ isRunning' = isRunning
            /\ browser' = [browser EXCEPT !.cookies = FALSE, !.storage = FALSE,
                                          !.tabs = CloseOtherTabs(browser).tabs]
            /\ hook' = [name |-> "after",
                        status |-> IF CloseOtherTabs(browser).threw THEN "rejected"
                                   ELSE "resolved"]
    /\ UNCHANGED opts /\ UNCHANGED pageVars

\* The session is terminated, or its window is closed, while a test runs: the
\* driver answers what follows with a RuntimeError.
SessionLost ==
    /\ phase = "test" /\ browser.open /\ ~ browser.lost
    /\ browser' = [browser EXCEPT !.lost = TRUE]
    /\ UNCHANGED << opts, isRunning, phase, hook >> /\ UNCHANGED pageVars

\* _failed(test) with no scope open: the screenshot is taken, and when it is
\* refused with a RuntimeError that says the session was terminated or the
\* window closed, isRunning is reset.  Screenshots can be disabled and the
\* wording of the error is the driver's, so a lost session may go unnoticed.
FailedHook ==
    /\ phase = "test" /\ ~ withinStore.has
    /\ \E noticed \in {b \in BOOLEAN : b => browser.lost} :
           isRunning' = IF noticed THEN FALSE ELSE isRunning
    /\ hook' = [name |-> "failed", status |-> "resolved"]
    /\ UNCHANGED << opts, browser, phase >> /\ UNCHANGED pageVars

\* _afterSuite(): empty.  Another suite may follow.
AfterSuite ==
    /\ phase = "ready"
    /\ phase' = "suite"
    /\ hook' = [name |-> "afterSuite", status |-> "resolved"]
    /\ UNCHANGED << opts, isRunning, browser >> /\ UNCHANGED pageVars

\* _finishTest(): after the last suite.
FinishTest ==
    /\ phase = "suite" /\ hook.name = "afterSuite"
    /\ phase' = "done"
    /\ browser' = IF ~ opts.restart /\ isRunning THEN Quit(browser) ELSE browser
    /\ hook' = [name |-> "finishTest", status |-> "resolved"]
    /\ UNCHANGED << opts, isRunning >> /\ UNCHANGED pageVars

----
\* The resolvers: each issues its native queries one after the other, waiting
\* for the answer of one before it decides on the next.

\* A findFields that tries the label-contains query before the label-equals one.
FindFieldsContainsFirst(loc) ==
    LET lit == Literal(loc)
        o1 == Issue(Start, XPath("field.labelContains", lit), FALSE)
        o2 == Issue(o1, XPath("field.labelEquals", lit), FALSE)
        o3 == Issue(o2, XPath("field.byName", lit), FALSE)
        o4 == Issue(o3, By("css", loc), FALSE)
    IN  IF GuessLocator(loc) # NoBy THEN Issue(Start, GuessLocator(loc), FALSE)
        ELSE IF o1.els # << >> THEN o1
        ELSE IF o2.els # << >> THEN o2
        ELSE IF o3.els # << >> THEN o3
        ELSE o4

\* findFields(client, locator)
FindFieldsOutcome(loc) ==
    LET lit == Literal(loc)
        o1 == Issue(Start, XPath("field.labelEquals", lit), FALSE)
        o2 == Issue(o1, XPath("field.labelContains", lit), FALSE)
        o3 == Issue(o2, XPath("field.byName", lit), FALSE)
        o4 == Issue(o3, By("css", loc), FALSE)
    IN  IF GuessLocator(loc) # NoBy THEN Issue(Start, GuessLocator(loc), FALSE)
        ELSE IF o1.els # << >> THEN o1
        ELSE IF o2.els # << >> THEN o2
        ELSE IF o3.els # << >> THEN o3
        ELSE o4

\* A findCheckable that goes on to the next query whatever the last one gave.
FindCheckableNoShortCircuit(loc) ==
    LET lit == Literal(loc)
        o1 == Issue(Start, XPath("checkable.byText", lit), FALSE)
        o2 == Issue(o1, XPath("checkable.byName", lit), FALSE)
        o3 == Issue(o2, By("css", loc), FALSE)
    IN  IF GuessLocator(loc) # NoBy THEN Issue(Start, GuessLocator(loc), FALSE)
        ELSE o3

\* findCheckable(this.browser, locator)
FindCheckableOutcome(loc) ==
    LET lit == Literal(loc)
        o1 == Issue(Start, XPath("checkable.byText", lit), FALSE)
        o2 == Issue(o1, XPath("checkable.byName", lit), FALSE)
        o3 == Issue(o2, By("css", loc), FALSE)
    IN  IF GuessLocator(loc) # NoBy THEN Issue(Start, GuessLocator(loc), FALSE)
        ELSE IF o1.els # << >> THEN o1
        ELSE IF o2.els # << >> THEN o2
        ELSE o3

\* findCheckable(client, locator) after o, with the element client as matcher
FindCheckableFrom(o, client, loc) ==
    LET lit == Literal(loc)
        o1 == IssueIn(o, client, XPath("checkable.byText", lit), FALSE)
        o2 == IssueIn(o1, client, XPath("checkable.byName", lit), FALSE)
        o3 == IssueIn(o2, client, By("css", loc), FALSE)
    IN  IF GuessLocator(loc) # NoBy THEN IssueIn(o, client, GuessLocator(loc), FALSE)
        ELSE IF o1.els # << >> THEN o1
        ELSE IF o2.els # << >> THEN o2
        ELSE o3

\* findClickable(matcher, locator): the first element of the narrow or of the
\* wide query, or what matcher.findElement gives for the css query.
FindClickableFrom(o, matcher, loc) ==
    LET l == Classify(loc)
        lit == Literal(l.value)
        o1 == IssueIn(o, matcher, XPath("clickable.narrow", lit), FALSE)
        o2 == IssueIn(o1, matcher, XPath("clickable.wide", lit), FALSE)
        o3 == IssueIn(o2, matcher, By("css", l.value), TRUE)
    IN  IF ~ l.fuzzy THEN IssueIn(o, matcher, GuessLocator(l.value), TRUE)
        ELSE IF o1.els # << >> THEN [o1 EXCEPT !.els = << o1.els[1] >>]
        ELSE IF o2.els # << >> THEN [o2 EXCEPT !.els = << o2.els[1] >>]
        ELSE o3

\* findClickable(this.browser, locator)
FindClickableOutcome(loc) == FindClickableFrom(Start, Document, loc)

\* The context arguments of click, doubleClick and checkOption; NoContext is
\* context = null.
NoContext == Str("", "")
ContextArgs == {Str("#", "option"), Str("", "option")}

\* guessLocator(context) || global.by.css(context)
ContextBy(ctx) == IF GuessLocator(ctx) # NoBy THEN GuessLocator(ctx) ELSE By("css", ctx)

\* The resolution of click(locator, context): the context element is looked up
\* and waited for, then findClickable runs on it.
ClickOutcome(loc, ctx) ==
    LET c == IssueIn(Start, Document, ContextBy(ctx), TRUE)
    IN  IF ctx = NoContext THEN FindClickableFrom(Start, Document, loc)
        ELSE IF c.err # "none" THEN c
        ELSE FindClickableFrom(c, c.els[1], loc)

\* The resolution of doubleClick(locator, context): the context lookup is
\* issued, and findClickable runs on the promise _smartWait returned for it.
DoubleClickOutcome(loc, ctx) ==
    LET c == IssueIn(Start, Document, ContextBy(ctx), TRUE)
    IN  IF ctx = NoContext THEN FindClickableFrom(Start, Document, loc)
        ELSE FindClickableFrom([c EXCEPT !.els = << >>, !.err = "none"], Pending, loc)

\* _locate(locator): this.browser.findElements(guessLocator(locator))
LocateOutcome(loc) == Issue(Start, GuessLocator(loc), FALSE)

\* An argument the caller leaves out.
Undefined == "undefined"
PrefixArgs == {Undefined, "Field", "Option"}
SuffixArgs == {Undefined, "was not found"}

\* (new Locator(locator)).toString(): the pieces of the rendered locator.
Render(raw) ==
    IF raw.key = "" THEN << raw.prefix, raw.body >>
    ELSE << "{", raw.key, ": ", raw.prefix, raw.body, "}" >>

\* An ElementNotFound whose default prefix is the empty text.
ElementNotFoundNoPrefix(locator, prefixMessage, postfixMessage) ==
    << IF prefixMessage = Undefined THEN "" ELSE prefixMessage,
       Render(locator),
       IF postfixMessage = Undefined THEN "was not found by text|CSS|XPath"
       ELSE postfixMessage >>

\* new ElementNotFound(locator, prefixMessage, postfixMessage): the three parts
\* of the message, which the error joins with single spaces.
ElementNotFound(locator, prefixMessage, postfixMessage) ==
    << IF prefixMessage = Undefined THEN "Element" ELSE prefixMessage,
       Render(locator),
       IF postfixMessage = Undefined THEN "was not found by text|CSS|XPath"
       ELSE postfixMessage >>

\* assertElementExists(res, locator, prefix, suffix) applied to the list the
\* last resolution gave, with the locator that resolution was given.
AssertElementExists(prefix, suffix) ==
    /\ run.op \in {"locate", "findFields", "findCheckable"}
    /\ run.status = "resolved" /\ ~ run.asserted
    /\ run' = IF Len(run.els) = 0
              THEN [run EXCEPT !.asserted = TRUE, !.prefix = prefix, !.suffix = suffix,
                               !.status = "rejected", !.err = "ElementNotFound",
                               !.msg = ElementNotFound(run.loc, prefix, suffix)]
              ELSE [run EXCEPT !.asserted = TRUE, !.prefix = prefix, !.suffix = suffix]
    /\ UNCHANGED dom /\ UNCHANGED helperVars

\* The test is between two steps: nothing is being resolved and no result is held.
Ready == run = NoRun

\* The test has used what its last step gave and moves on to the next step.
NextStep ==
    /\ run # NoRun
    /\ run' = NoRun
    /\ UNCHANGED dom /\ UNCHANGED helperVars

FindFields(loc) ==
    /\ Ready
    /\ run' = RunOf("findFields", loc, FindFieldsOutcome(loc))
    /\ UNCHANGED dom /\ UNCHANGED helperVars

FindCheckable(loc) ==
    /\ Ready
    /\ run' = RunOf("findCheckable", loc, FindCheckableOutcome(loc))
    /\ UNCHANGED dom /\ UNCHANGED helperVars

\* click(locator) without a context: findClickable, then a click on the element.
Click(loc) ==
    /\ Ready
    /\ run' = RunOf("click", loc, FindClickableOutcome(loc))
    /\ UNCHANGED dom /\ UNCHANGED helperVars

\* click(locator, context) with a context
ClickWithin(loc, ctx) ==
    /\ Ready
    /\ run' = [RunOf("clickWithin", loc, ClickOutcome(loc, ctx)) EXCEPT !.ctx = ctx]
    /\ UNCHANGED dom /\ UNCHANGED helperVars

\* doubleClick(locator, context)
DoubleClick(loc, ctx) ==
    /\ Ready
    /\ run' = [RunOf("doubleClick", loc, DoubleClickOutcome(loc, ctx)) EXCEPT !.ctx = ctx]
    /\ UNCHANGED dom /\ UNCHANGED helperVars

\* The operation recorded in r made the call act on its element.
Did(r, act) == \E i \in 1 .. Len(r.did) : r.did[i] = act

\* A reduction of the isSelected values with "and".
AllSelected(els) == \A i \in 1 .. Len(els) : dom[els[i]].selected

\* values.reduce((prev, cur) => prev || cur) over the isSelected values of els
AnySelected(els) == \E i \in 1 .. Len(els) : dom[els[i]].selected

\* truth(subject, type)[assertType](value): assert passes on a true value, negate
\* on a false one.
Truth(assertType, value) == IF assertType = "assert" THEN value ELSE ~ value

\* proceedIsChecked(assertType, option), called by seeCheckboxIsChecked
\* ("assert") and dontSeeCheckboxIsChecked ("negate")
ProceedIsChecked(assertType, option) ==
    /\ Ready
    /\ LET o == FindCheckableOutcome(option)
           r == RunOf(IF assertType = "assert" THEN "seeCheckboxIsChecked"
                      ELSE "dontSeeCheckboxIsChecked", option, o)
           passed == Truth(assertType, AnySelected(o.els))
       IN  run' = IF o.err # "none" THEN r
                  ELSE IF Len(o.els) = 0
                  THEN [r EXCEPT !.status = "rejected", !.err = "ElementNotFound",
                                 !.prefix = "Option", !.suffix = Undefined,
                                 !.msg = ElementNotFound(option, "Option", Undefined)]
                  ELSE [r EXCEPT !.status = IF passed THEN "resolved" ELSE "rejected",
                                 !.err = IF passed THEN "none" ELSE "AssertionFailed"]
    /\ UNCHANGED dom /\ UNCHANGED helperVars

\* A checkOption that clicks whatever isSelected says.
AlwaysClick(isSelected) == TRUE

\* if (!isSelected) return els[0].click()
ShouldClick(isSelected) == ~ isSelected

\* What a click on node n does to the page: a checkbox changes its state.
Clicked(d, n) == [d EXCEPT ![n].selected = ~ @]

\* The resolution of checkOption(field, context): the context element, if a
\* context is given, is looked up and waited for, then findCheckable runs on it.
CheckOptionOutcome(field, ctx) ==
    LET c == IssueIn(Start, Document, ContextBy(ctx), TRUE)
    IN  IF ctx = NoContext THEN FindCheckableOutcome(field)
        ELSE IF c.err # "none" THEN c
        ELSE FindCheckableFrom(c, c.els[1], field)

\* checkOption(field, context)
CheckOption(field, ctx) ==
    /\ Ready
    /\ LET o == CheckOptionOutcome(field, ctx)
           r == [RunOf("checkOption", field, o) EXCEPT !.ctx = ctx]
           clicks == ShouldClick(dom[o.els[1]].selected)
       IN  IF o.err # "none" THEN run' = r /\ UNCHANGED dom
           ELSE IF Len(o.els) = 0
           THEN /\ run' = [r EXCEPT !.status = "rejected", !.err = "ElementNotFound",
                                    !.prefix = "Checkbox or radio", !.suffix = Undefined,
                                    !.msg = ElementNotFound(field, "Checkbox or radio",
                                                            Undefined)]
                /\ UNCHANGED dom
           ELSE /\ run' = [r EXCEPT !.did = IF clicks THEN << "isSelected", "click" >>
                                            ELSE << "isSelected" >>]
                /\ dom' = IF clicks THEN Clicked(dom, o.els[1]) ELSE dom
    /\ UNCHANGED helperVars

\* An operation on a field: findFields(this.browser, field), then, if the
\* operation asserts it, assertElementExists(els, field, "Field"), then the
\* actions acts on els[0].  Without the assertion els[0] of an empty list is
\* undefined and the first action on it throws a TypeError.
FieldRun(op, field, asserts, acts) ==
    LET o == FindFieldsOutcome(field)
        r == RunOf(op, field, o)
    IN  IF o.err # "none" THEN r
        ELSE IF Len(o.els) = 0 /\ asserts
        THEN [r EXCEPT !.status = "rejected", !.err = "ElementNotFound",
                       !.prefix = "Field", !.suffix = Undefined,
                       !.msg = ElementNotFound(field, "Field", Undefined)]
        ELSE IF Len(o.els) = 0
        THEN [r EXCEPT !.status = "rejected", !.err = "TypeError"]
        ELSE [r EXCEPT !.did = acts]

\* fillField(field, value)
FillField(field) ==
    /\ Ready
    /\ run' = FieldRun("fillField", field, FALSE, << "clear", "sendKeys" >>)
    /\ UNCHANGED dom /\ UNCHANGED helperVars

\* appendField(field, value)
AppendField(field) ==
    /\ Ready
    /\ run' = FieldRun("appendField", field, TRUE, << "sendKeys" >>)
    /\ UNCHANGED dom /\ UNCHANGED helperVars

\* clearField(field)
ClearField(field) ==
    /\ Ready
    /\ run' = FieldRun("clearField", field, TRUE, << "clear" >>)
    /\ UNCHANGED dom /\ UNCHANGED helperVars

\* grabValueFrom(locator)
GrabValueFrom(field) ==
    /\ Ready
    /\ run' = FieldRun("grabValueFrom", field, TRUE, << "getAttribute" >>)
    /\ UNCHANGED dom /\ UNCHANGED helperVars

\* _locate(locator) for any locator argument, smart wait off.
LocateAny(loc) ==
    /\ Ready
    /\ run' = RunOf("locate", loc, LocateOutcome(loc))
    /\ UNCHANGED dom /\ UNCHANGED helperVars

----
\* _withinBegin(locator)
WithinBegin(s, loc) ==
    /\ Idle(s)
    /\ withinStore' = [has |-> TRUE, elFn |-> findElement[s], elsFn |-> findElements[s]]
    /\ context' = [context EXCEPT ![s] = loc]
    /\ IF findElement[s].kind = "undefined"
       THEN \* calling undefined throws a TypeError
            /\ call' = [call EXCEPT ![s] =
                            [NewCall(s, "withinBegin", "rejected") EXCEPT !.threw = TRUE]]
            /\ queue' = queue
       ELSE /\ call' = [call EXCEPT ![s] = NewCall(s, "withinBegin", "pending")]
            /\ queue' = Schedule(queue, DriverOf(s, findElement[s]),
                                 << FindCmd(s, findElement[s], loc, TRUE, "withinBegin") >>)
    /\ UNCHANGED << findElement, findElements, smartWait, timeout >>

\* _withinEnd()
WithinEnd(s) ==
    /\ findElement' = [findElement EXCEPT ![s] = withinStore.elFn]
    /\ findElements' = [findElements EXCEPT ![s] = withinStore.elsFn]
    /\ withinStore' = EmptyStore
    /\ context' = [context EXCEPT ![s] = "body"]
    /\ call' = [call EXCEPT ![s] =
                    IF call[s].status = "pending"
                    THEN [call[s] EXCEPT !.endedEarly = TRUE]
                    ELSE NewCall(s, "withinEnd", "resolved")]
    /\ UNCHANGED << smartWait, timeout, queue >>

\* _failed(test): the scope part
Failed(s) ==
    IF withinStore.has
    THEN WithinEnd(s)
    ELSE /\ call' = [call EXCEPT ![s] =
                         IF call[s].status = "pending" THEN call[s]
                         ELSE NewCall(s, "failed", "resolved")]
         /\ UNCHANGED << withinStore, findElement, findElements, context,
                         smartWait, timeout, queue >>

\* The functions a caller hands to _smartWait: one that throws, or a query
\* through this.browser.findElement / this.browser.findElements.
QueryFns ==
    {[kind |-> "throws", loc |-> "none"]}
    \cup [kind : {"findElement", "findElements"}, loc : Locators]

FnOf(s, fn) == IF fn.kind = "findElement" THEN findElement[s] ELSE findElements[s]

\* fn() throws before it schedules anything: fn itself throws, or the find
\* function it calls is undefined.
Throws(s, fn) == fn.kind = "throws" \/ FnOf(s, fn).kind = "undefined"

QueryCmd(s, fn) == FindCmd(s, FnOf(s, fn), fn.loc, fn.kind = "findElement", "smartWait")

\* A guard that turns smart wait on when either condition holds.
SmartWaitActiveEither(s, enabled) == smartWait[s] # 0 \/ enabled

\* if (!this.options.smartWait || !enabled) return fn();
SmartWaitActive(s, enabled) == smartWait[s] # 0 /\ enabled

\* An active _smartWait that forgets the trailing implicitlyWait(0).
SmartWaitQueueNoReset(s, fn) ==
    LET q1 == Schedule(queue, s, << WaitCmd(s, smartWait[s]) >>)
    IN  IF Throws(s, fn) THEN q1
        ELSE Schedule(q1, DriverOf(s, FnOf(s, fn)), << QueryCmd(s, fn) >>)

\* An active _smartWait that resets the timeout before it calls fn().
SmartWaitQueueEarlyReset(s, fn) ==
    LET q1 == Schedule(queue, s, << WaitCmd(s, smartWait[s]), WaitCmd(s, 0) >>)
    IN  IF Throws(s, fn) THEN q1
        ELSE Schedule(q1, DriverOf(s, FnOf(s, fn)), << QueryCmd(s, fn) >>)

\* The commands an active _smartWait schedules: implicitlyWait(smartWait), then
\* what fn() schedules, then implicitlyWait(0) unless fn() threw.
SmartWaitQueue(s, fn) ==
    LET q1 == Schedule(queue, s, << WaitCmd(s, smartWait[s]) >>)
    IN  IF Throws(s, fn) THEN q1
        ELSE Schedule(Schedule(q1, DriverOf(s, FnOf(s, fn)), << QueryCmd(s, fn) >>),
                      s, << WaitCmd(s, 0) >>)

\* The commands return fn() schedules when smart wait is off.
PlainQueue(s, fn) ==
    IF Throws(s, fn) THEN queue
    ELSE Schedule(queue, DriverOf(s, FnOf(s, fn)), << QueryCmd(s, fn) >>)

SmartWaitCall(s, fn, enabled, op) ==
    /\ Idle(s)
    /\ queue' = IF SmartWaitActive(s, enabled) THEN SmartWaitQueue(s, fn)
                ELSE PlainQueue(s, fn)
    /\ call' = [call EXCEPT ![s] =
                   [NewCall(s, op, IF Throws(s, fn) THEN "rejected" ELSE "pending")
                      EXCEPT !.enabled = enabled,
                             !.fnCalls = 1,
                             !.threw = Throws(s, fn)]]
    /\ UNCHANGED << withinStore, findElement, findElements, context, smartWait, timeout >>

\* _smartWait(fn, enabled)
SmartWait(s, fn, enabled) == SmartWaitCall(s, fn, enabled, "smartWait")

\* _locate(locator, smartWait)
Locate(s, loc, sw) ==
    SmartWaitCall(s, [kind |-> "findElements", loc |-> loc], sw, "locate")

\* The locator proceedSee queries for: the context given, or the root element
\* when this.context is the root element, or everything below the search root.
SeeLocator(s, ctx) ==
    IF ctx # "none" THEN ctx
    ELSE IF context[s] = RootElement THEN RootElement
    ELSE AllBelow

\* proceedSee(assertType, text, context), called by see ("assert") and dontSee
\* ("negate"): the query goes through _smartWait, enabled for "assert".
ProceedSee(s, assertType, text, ctx) ==
    LET fn == [kind |-> "findElements", loc |-> SeeLocator(s, ctx)]
        enabled == assertType = "assert"
    IN  /\ Idle(s)
        /\ queue' = IF SmartWaitActive(s, enabled) THEN SmartWaitQueue(s, fn)
                    ELSE PlainQueue(s, fn)
        /\ call' = [call EXCEPT ![s] =
                       [NewCall(s, "see", IF Throws(s, fn) THEN "rejected" ELSE "pending")
                          EXCEPT !.enabled = enabled,
                                 !.fnCalls = 1,
                                 !.threw = Throws(s, fn),
                                 !.assertType = assertType,
                                 !.text = text,
                                 !.ctx = ctx]]
        /\ UNCHANGED << withinStore, findElement, findElements, context, smartWait, timeout >>

\* Once the query of a proceedSee is answered with els the texts are read and
\* the assertion decides; every other operation is content with the answer.
SeePasses(c, els) ==
    c.op = "see" => StringIncludes(c.assertType, c.text, Source(els))

\* The implicit-wait timeout driver d has once it has executed the first n of
\* its scheduled commands: the timeout command n + 1 runs under.
TimeoutAfter(d, n) ==
    LET ws == {i \in 1 .. n : queue[d][i].type = "implicitlyWait"}
    IN  IF ws = {} THEN timeout[d]
        ELSE queue[d][CHOOSE i \in ws : \A j \in ws : j <= i].ms

\* The timeout in force for whatever the helper schedules next.
EffectiveTimeout(d) == TimeoutAfter(d, Len(queue[d]))

\* The driver d executes its oldest command.  A find answers the helper that
\* made it: findElement fails when nothing matches, findElements gives the list;
\* the callback of _withinBegin rebinds that helper's find functions.
Exec(d) ==
    /\ queue[d] # << >>
    /\ queue' = [queue EXCEPT ![d] = Tail(queue[d])]
    /\ LET c == Head(queue[d])
           o == c.owner
           res == Answer(c.root, c.loc)
           ok == ~ (c.single /\ res = << >>)
       IN  IF c.type = "implicitlyWait"
           THEN /\ timeout' = [timeout EXCEPT ![d] = c.ms]
                /\ UNCHANGED << call, findElement, findElements >>
           ELSE /\ timeout' = timeout
                /\ call' = [call EXCEPT ![o] =
                               IF call[o].status = "pending"
                               THEN [call[o] EXCEPT
                                       !.status = IF ok /\ SeePasses(call[o], res)
                                                  THEN "resolved" ELSE "rejected",
                                       !.ranUnder = timeout[d],
                                       !.result = res]
                               ELSE call[o]]
                /\ IF c.then = "withinBegin" /\ ok
                   THEN /\ findElement' = [findElement EXCEPT ![o] = Scoped(d, res[1])]
                        /\ findElements' = [findElements EXCEPT ![o] = Scoped(d, res[1])]
                   ELSE UNCHANGED << findElement, findElements >>
    /\ UNCHANGED << withinStore, context, smartWait >>

Next ==
    \/ \E s \in Helper, loc \in Locators : WithinBegin(s, loc) /\ UNCHANGED formVars
    \/ \E s \in Helper : WithinEnd(s) /\ UNCHANGED formVars
    \/ \E s \in Helper : Failed(s) /\ UNCHANGED formVars
    \/ \E s \in Helper, fn \in QueryFns, enabled \in BOOLEAN :
           SmartWait(s, fn, enabled) /\ UNCHANGED formVars
    \/ \E s \in Helper, loc \in Locators, sw \in BOOLEAN :
           Locate(s, loc, sw) /\ UNCHANGED formVars
    \/ \E s \in Helper, assertType \in {"assert", "negate"}, text \in Needles,
          ctx \in {"none"} \cup Locators :
           ProceedSee(s, assertType, text, ctx) /\ UNCHANGED formVars
    \/ \E d \in Helper : Exec(d) /\ UNCHANGED formVars

\* One helper instance: the second is constructed and never used.
InitHelper == Init /\ smartWait["s2"] = 0 /\ BlankForm /\ DefaultLife

Spec == InitHelper /\ [][Next]_vars

NextSessions ==
    \/ \E s \in Sessions, loc \in Locators : WithinBegin(s, loc) /\ UNCHANGED formVars
    \/ \E s \in Sessions : WithinEnd(s) /\ UNCHANGED formVars
    \/ \E s \in Sessions : Failed(s) /\ UNCHANGED formVars
    \/ \E d \in Sessions : Exec(d) /\ UNCHANGED formVars

\* Two helper instances whose scope operations interleave (smart wait off).
InitSessions == Init /\ smartWait = [s \in Sessions |-> 0] /\ BlankForm /\ DefaultLife

SpecSessions == InitSessions /\ [][NextSessions]_vars

NextResolve ==
    \/ \E loc \in RawLocators : FindFields(loc)
    \/ \E loc \in RawLocators : FindCheckable(loc)
    \/ \E loc \in RawLocators : Click(loc)
    \/ \E loc \in RawLocators : LocateAny(loc)
    \/ \E loc \in RawLocators, ctx \in ContextArgs : ClickWithin(loc, ctx)
    \/ \E loc \in RawLocators, ctx \in ContextArgs \cup {NoContext} : DoubleClick(loc, ctx)
    \/ \E field \in RawLocators, ctx \in ContextArgs \cup {NoContext} : CheckOption(field, ctx)
    \/ \E field \in RawLocators : FillField(field)
    \/ \E field \in RawLocators : AppendField(field)
    \/ \E field \in RawLocators : ClearField(field)
    \/ \E field \in RawLocators : GrabValueFrom(field)
    \/ \E assertType \in {"assert", "negate"}, option \in RawLocators :
           ProceedIsChecked(assertType, option)
    \/ \E prefix \in PrefixArgs, suffix \in SuffixArgs : AssertElementExists(prefix, suffix)
    \/ NextStep

\* One helper instance at the root of a page with a form (smart wait off).
InitResolve == Init /\ smartWait = [s \in Sessions |-> 0] /\ InitForm /\ DefaultLife

SpecResolve == InitResolve /\ [][NextResolve]_vars

NextLifecycle ==
    \/ BeforeSuite
    \/ Before
    \/ StartBrowser
    \/ SetCookie
    \/ ExecuteScript
    \/ ClickOpensTab
    \/ SessionLost
    \/ FailedHook
    \/ After
    \/ AfterSuite
    \/ FinishTest

\* A test run of one helper instance under any configuration of the options.
InitLifecycle == Init /\ smartWait = [s \in Sessions |-> 0] /\ BlankForm /\ InitLife

SpecLifecycle == InitLifecycle /\ [][NextLifecycle]_vars

----
\* Claims about _smartWait

IsSmartWaitCall(c) == c.op \in {"smartWait", "locate"}

\* The latest operation of helper s is a _smartWait (or _locate) call under active
\* smart wait: options.smartWait > 0 and the call enables it.
ActiveCall(s) == IsSmartWaitCall(call[s]) /\ smartWait[s] > 0 /\ call[s].enabled

\* ... a call with smart wait off: options.smartWait is 0 or enabled = false.
DisabledCall(s) == IsSmartWaitCall(call[s]) /\ (smartWait[s] = 0 \/ ~ call[s].enabled)

\* The position in queue[s] of the query the pending call of helper s scheduled
\* (0 when it is not there).
QueryPos(s) ==
    LET qs == {i \in 1 .. Len(queue[s]) :
                  queue[s][i].type = "find" /\ queue[s][i].owner = s}
    IN  IF qs = {} THEN 0 ELSE CHOOSE i \in qs : TRUE

\* C1: when smart wait is active and queryFn completes successfully, then once
\* _smartWait has returned the implicit-wait timeout in force for the session
\* (the value every command scheduled from then on runs under, and the driver's
\* timeout once it has executed what was scheduled) is 0, for every configured
\* smartWait value.
C1_ResetAfterSuccess ==
    \A s \in Sessions :
        (ActiveCall(s) /\ call[s].status = "resolved")
        => /\ EffectiveTimeout(s) = 0
           /\ (queue[s] = << >> => timeout[s] = 0)

C1_Witness ==
    \E s \in Sessions :
        /\ call[s].op = "smartWait" /\ ActiveCall(s) /\ call[s].status = "resolved"
        /\ smartWait[s] = MaxSmartWait
        /\ call[s].ranUnder = MaxSmartWait
        /\ queue[s] = << >> /\ timeout[s] = 0

\* C2: when smart wait is active and queryFn throws or its query fails, the
\* implicit-wait timeout in force for the session is 0 when the error reaches the
\* caller: no failing call leaves it at the configured value.
C2_ResetAfterFailure ==
    \A s \in Sessions :
        (ActiveCall(s) /\ call[s].status = "rejected")
        => EffectiveTimeout(s) = 0

\* A failing call of the kind C2 is about whose query failed in the driver: the
\* reset was scheduled behind the query and the timeout is back to 0.
C2_Witness ==
    \E s \in Sessions :
        /\ ActiveCall(s) /\ call[s].status = "rejected"
        /\ ~ call[s].threw
        /\ queue[s] = << >> /\ timeout[s] = 0

\* C9: under active smart wait the implicit-wait window brackets the query: the
\* query runs under the configured smartWait value (the timeout is set before the
\* query, and nothing the driver executes before the query changes it again), and
\* the reset to 0 is applied only after the query has completed.
C9_WindowBracketsQuery ==
    \A s \in Helper :
        (ActiveCall(s) /\ ~ call[s].threw)
        => IF call[s].status = "pending"
           THEN /\ QueryPos(s) > 0
                /\ TimeoutAfter(s, QueryPos(s) - 1) = smartWait[s]
                /\ \E k \in (QueryPos(s) + 1) .. Len(queue[s]) :
                       queue[s][k] = WaitCmd(s, 0)
           ELSE call[s].ranUnder = smartWait[s]

\* The driver is about to execute the query: the window is open, the reset waits.
C9_Witness ==
    \E s \in Helper :
        /\ ActiveCall(s) /\ call[s].status = "pending"
        /\ smartWait[s] = MaxSmartWait
        /\ timeout[s] = MaxSmartWait
        /\ Len(queue[s]) = 2
        /\ queue[s][1].type = "find"
        /\ queue[s][2] = WaitCmd(s, 0)

\* The queries of helper s the drivers have not executed yet.
PendingQueries(s) ==
    UNION {{<< d, i >> : i \in {j \in 1 .. Len(queue[d]) :
                                   queue[d][j].type = "find" /\ queue[d][j].owner = s}} :
           d \in Sessions}

\* C10: when options.smartWait is 0, or the call passes enabled = false, _smartWait
\* invokes queryFn exactly once (one query is scheduled, unless queryFn threw),
\* schedules no timeout command, and the session's implicit-wait timeout stays
\* what it was when the call began.
C10_DisabledLeavesTimeout ==
    \A s \in Sessions :
        DisabledCall(s)
        => /\ call[s].fnCalls = 1
           /\ Cardinality(PendingQueries(s)) =
                  IF call[s].status = "pending" THEN 1 ELSE 0
           /\ timeout[s] = call[s].pre.wait
           /\ \A i \in 1 .. Len(queue[s]) : queue[s][i].type # "implicitlyWait"

\* _locate with its default smartWait = false on a helper configured with
\* smartWait > 0, its query answered.
C10_Witness ==
    \E s \in Sessions :
        /\ call[s].op = "locate" /\ DisabledCall(s) /\ call[s].status = "resolved"
        /\ smartWait[s] > 0
        /\ call[s].result # << >>

----
\* Claims about _withinBegin / _withinEnd / _failed

\* The rebinding of _withinBegin is in place in helper s.
ScopeActive(s) == findElement[s].kind = "scoped" \/ findElements[s].kind = "scoped"

\* Helper s is at the root: nothing rebound, the context is the root element and
\* no lookup of a _withinBegin is in flight.
AtRoot(s) ==
    /\ findElement[s] = Orig /\ findElements[s] = Orig
    /\ context[s] = "body"
    /\ ~ (call[s].op = "withinBegin" /\ call[s].status = "pending")

\* Helper s has entered a scope with its latest operation, begun from the root or
\* from inside a scope, and nothing ran between the call and its lookup's answer.
JustEntered(s) ==
    /\ call[s].op = "withinBegin" /\ call[s].status = "resolved"
    /\ ~ call[s].endedEarly
    /\ (call[s].pre.ctx = "body" \/ call[s].pre.elFn.kind = "scoped")

\* C3: after _withinBegin(locator) on a locator that resolves, followed by
\* _withinEnd(), the find functions and the context equal their values before
\* _withinBegin, and the scope store is empty.
C3_BeginEndRestores ==
    [][\A s \in Sessions :
          (JustEntered(s) /\ WithinEnd(s))
          => /\ findElement'[s] = call[s].pre.elFn
             /\ findElements'[s] = call[s].pre.elsFn
             /\ context'[s] = call[s].pre.ctx
             /\ withinStore' = EmptyStore]_vars

\* C4: _withinEnd called when no scope is active leaves the find functions equal
\* to the root-level originals and the context at the root element.
C4_EndIdempotent ==
    [][\A s \in Sessions :
          (~ ScopeActive(s) /\ WithinEnd(s))
          => /\ findElement'[s] = Orig
             /\ findElements'[s] = Orig
             /\ context'[s] = "body"]_vars

\* C5: if a test fails while a scope is active, after _failed the find functions
\* are the originals, the context is the root element and the scope store is
\* empty; if it fails while the helper is at the root, _failed leaves the find
\* functions and the context unchanged.
C5_FailedRestores ==
    [][\A s \in Sessions :
          Failed(s)
          => /\ ScopeActive(s)
                => /\ findElement'[s] = Orig
                   /\ findElements'[s] = Orig
                   /\ context'[s] = "body"
                   /\ withinStore' = EmptyStore
             /\ AtRoot(s)
                => /\ findElement'[s] = findElement[s]
                   /\ findElements'[s] = findElements[s]
                   /\ context'[s] = context[s]]_vars

\* C6: if the locator given to _withinBegin resolves to no element, the call
\* fails and the session is as before the call: the find functions and the
\* context are what they were and no scope state is recorded.
C6_FailedBeginLeavesNoTrace ==
    \A s \in Sessions :
        (call[s].op = "withinBegin" /\ call[s].status = "rejected" /\ ~ call[s].threw)
        => /\ findElement[s] = call[s].pre.elFn
           /\ findElements[s] = call[s].pre.elsFn
           /\ context[s] = call[s].pre.ctx
           /\ withinStore = EmptyStore

\* C7: a _withinBegin issued while a scope is active is rejected and changes
\* nothing, so the find functions saved in the scope store are always the
\* root-level originals.
C7_NoSilentNesting ==
    [][\A s \in Sessions, loc \in Locators :
          (ScopeActive(s) /\ WithinBegin(s, loc))
          => /\ call'[s].status = "rejected"
             /\ UNCHANGED << withinStore, findElement, findElements, context, queue >>
             /\ withinStore'.has
                => withinStore'.elFn = Orig /\ withinStore'.elsFn = Orig]_vars

\* A scope operation of helper s used as intended: entering from outside a scope,
\* leaving a scope it is in, or the failure hook.
ProperScopeStep(s) ==
    \/ \E loc \in Locators : ~ ScopeActive(s) /\ WithinBegin(s, loc)
    \/ ScopeActive(s) /\ WithinEnd(s)
    \/ Failed(s)

\* C8: scope state is per session: a scope operation of one helper never changes
\* the find functions, the context or the saved scope state of another helper,
\* and a helper's _withinEnd restores its own original find functions.
C8_SessionsIndependent ==
    [][\A s \in Sessions : \A t \in Sessions \ {s} :
          ProperScopeStep(s)
          => /\ findElement'[t] = findElement[t]
             /\ findElements'[t] = findElements[t]
             /\ context'[t] = context[t]
             /\ (ScopeActive(t) /\ withinStore.has) => withinStore' = withinStore
             /\ (ScopeActive(s) /\ WithinEnd(s))
                => findElement'[s] = Orig /\ findElements'[s] = Orig]_vars

\* C21: the rebinding of _withinBegin cannot outlive the scope: if _withinEnd
\* (for example through _failed) runs after _withinBegin was called from the
\* root and before its element lookup has completed, then once the lookup has
\* completed the find functions are still the root-level originals, and no scope
\* is bound while the scope store is empty.
C21_RebindingEndsWithScope ==
    \A s \in Helper :
        (/\ call[s].op = "withinBegin" /\ call[s].endedEarly
         /\ call[s].status # "pending"
         /\ call[s].pre.elFn = Orig /\ call[s].pre.elsFn = Orig)
        => /\ findElement[s] = Orig /\ findElements[s] = Orig
           /\ ~ withinStore.has => ~ ScopeActive(s)

----
\* Claims about the resolvers

\* Resolver op has returned to its caller, which has asserted nothing on the
\* result yet.
Returned(op) == run.op = op /\ ~ run.asserted

\* The queries of log are the first queries of chain, in the order of chain.
FollowsChain(log, chain) ==
    /\ Len(log) >= 1 /\ Len(log) <= Len(chain)
    /\ \A i \in 1 .. Len(log) : log[i].by = chain[i]

\* A query was issued only after every earlier one had come back empty.
WentOnOnlyWhenEmpty(log) ==
    \A i \in 1 .. Len(log) - 1 : Found(log[i].by) = << >>

\* The resolution r issued exactly one native query, findElements or findElement
\* on the strategy and operand the locator classifies to, and none of a chain.
DirectRun(r) ==
    /\ Len(r.log) = 1
    /\ r.log[1].by = By(Classify(r.loc).type, Classify(r.loc).value)

FieldChain(loc) ==
    << XPath("field.labelEquals", Literal(loc)),
       XPath("field.labelContains", Literal(loc)),
       XPath("field.byName", Literal(loc)),
       By("css", loc) >>

\* C11: for a fuzzy locator the field resolver issues its queries in the order
\* label-equals, label-contains, name-equals, raw CSS; it goes on to the next
\* query only when the last one gave nothing, returns the whole result set of
\* the first query that gave something (or of the CSS query when none did) and
\* issues no query after it; for a non-fuzzy locator it issues exactly one
\* direct query and none of the chain.
C11_FieldChainOrder ==
    Returned("findFields")
    => IF Classify(run.loc).fuzzy
       THEN /\ FollowsChain(run.log, FieldChain(run.loc))
            /\ WentOnOnlyWhenEmpty(run.log)
            /\ run.els = Found(run.log[Len(run.log)].by)
            /\ Len(run.log) < 4 => run.els # << >>
            /\ run.status = "resolved"
       ELSE /\ DirectRun(run)
            /\ run.els = Found(run.log[1].by)

\* A fuzzy field locator no label matches: the name query, the third, finds both
\* nodes and the CSS query is never issued.
C11_Witness ==
    /\ run.op = "findFields" /\ Classify(run.loc).fuzzy
    /\ Len(run.log) = 3
    /\ run.els = DocOrder
CheckableChain(loc) ==
    << XPath("checkable.byText", Literal(loc)),
       XPath("checkable.byName", Literal(loc)),
       By("css", loc) >>

\* C12: for a fuzzy locator the checkable resolver issues its queries in the
\* order label-text, name, raw CSS; the first query that gives something wins
\* and no query is issued after it; when both heuristics give nothing the result
\* is exactly what the CSS query on the original text gives, possibly empty, and
\* the chain itself raises no exception.
C12_CheckableChainOrder ==
    (Returned("findCheckable") /\ Classify(run.loc).fuzzy)
    => /\ FollowsChain(run.log, CheckableChain(run.loc))
       /\ WentOnOnlyWhenEmpty(run.log)
       /\ run.els = Found(run.log[Len(run.log)].by)
       /\ Len(run.log) < 3 => run.els # << >>
       /\ (Found(CheckableChain(run.loc)[1]) = << >> /\ Found(CheckableChain(run.loc)[2]) = << >>)
          => run.els = Found(By("css", run.loc))
       /\ run.status = "resolved" /\ run.err = "none"

\* Neither heuristic nor the CSS query finds anything: the result is the empty
\* list.
C12_Witness ==
    /\ run.op = "findCheckable" /\ Classify(run.loc).fuzzy
    /\ Len(run.log) = 3
    /\ run.els = << >> /\ run.status = "resolved"
ClickableChain(loc) ==
    << XPath("clickable.narrow", Literal(Classify(loc).value)),
       XPath("clickable.wide", Literal(Classify(loc).value)),
       By("css", Classify(loc).value) >>

\* C13: for a fuzzy locator the clickable resolver issues its queries in the
\* order narrow XPath, wide XPath, raw CSS, the wide one only if the narrow one
\* gave nothing and the CSS one only if both gave nothing; when the whole chain
\* matches nothing the outcome is an empty result, not an exception raised
\* inside the resolver.
C13_ClickableChainOrder ==
    (run.op = "click" /\ Classify(run.loc).fuzzy)
    => /\ FollowsChain(run.log, ClickableChain(run.loc))
       /\ WentOnOnlyWhenEmpty(run.log)
       /\ Len(run.log) < 3 => run.els # << >>
       /\ run.status = "resolved" /\ run.err = "none"
\* C14: for every non-fuzzy locator given to click (a CSS- or XPath-prefixed
\* string, or a descriptor {id: v}, {name: v}, {css: v}, {xpath: v}) findClickable
\* issues exactly one native query, whose strategy and operand are the type and
\* the value of the classified locator, and runs none of the chain.
C14_ClickDirectQuery ==
    (run.op = "click" /\ ~ Classify(run.loc).fuzzy) => DirectRun(run)
\* The queries a strategy chain generates, as opposed to a direct native query.
ChainQuery(q) == q.by.using = "xpath" /\ q.by.gen # "by"

\* C15: every resolution through _locate attempts exactly one of two things: for
\* a non-fuzzy locator a single direct native query, for a fuzzy locator the
\* queries of a heuristic chain; it never issues a query built from no strategy
\* at all.
C15_LocateOneMode ==
    run.op = "locate"
    => /\ \A i \in 1 .. Len(run.log) : run.log[i].by.using # "none"
       /\ IF Classify(run.loc).fuzzy
          THEN Len(run.log) >= 1 /\ ChainQuery(run.log[1])
          ELSE DirectRun(run)
\* C16: for a non-fuzzy locator that matches nothing _locate returns the empty
\* list without throwing; assertElementExists applied to an empty result fails
\* with an ElementNotFound whose message is '<prefix> <rendered locator>
\* <suffix>', the rendered locator containing the locator's literal text, the
\* prefix 'Element' and the suffix 'was not found by text|CSS|XPath' when the
\* caller gives none; assertElementExists never fails on a non-empty result.
C16_NotFoundIsReportedByAssertion ==
    /\ (run.op = "locate" /\ ~ Classify(run.loc).fuzzy /\ ~ run.asserted)
       => /\ run.status = "resolved" /\ run.err = "none"
          /\ run.els = Found(By(Classify(run.loc).type, Classify(run.loc).value))
    /\ (run.asserted /\ run.els = << >>)
       => /\ run.status = "rejected" /\ run.err = "ElementNotFound"
          /\ Len(run.msg) = 3
          /\ run.msg[1] = IF run.prefix = Undefined THEN "Element" ELSE run.prefix
          /\ Embedded(<< run.loc.prefix, run.loc.body >>, run.msg[2])
          /\ run.msg[3] = IF run.suffix = Undefined
                          THEN "was not found by text|CSS|XPath" ELSE run.suffix
    /\ (run.asserted /\ run.els # << >>)
       => run.status = "resolved" /\ run.err = "none" /\ run.msg = << >>

\* _locate('#opt') on a page without such a node gave the empty list, and the
\* assertion with no prefix and no suffix given has failed on it.
C16_Witness ==
    /\ run.op = "locate" /\ run.loc = Str("#", "opt")
    /\ run.asserted /\ run.els = << >>
    /\ run.prefix = Undefined /\ run.suffix = Undefined
    /\ run.msg = << "Element", << "#", "opt" >>, "was not found by text|CSS|XPath" >>
\* C17: seeCheckboxIsChecked succeeds if and only if at least one of the matched
\* elements is selected, dontSeeCheckboxIsChecked succeeds if and only if some
\* element matched and none of the matched elements is selected, and both fail
\* with an ElementNotFound whose prefix is 'Option' when nothing matched.
C17_CheckedIsOrOverMatches ==
    /\ run.op = "seeCheckboxIsChecked"
       => (run.status = "resolved" <=> \E i \in 1 .. Len(run.els) : dom[run.els[i]].selected)
    /\ run.op = "dontSeeCheckboxIsChecked"
       => (run.status = "resolved"
           <=> /\ run.els # << >>
               /\ \A i \in 1 .. Len(run.els) : ~ dom[run.els[i]].selected)
    /\ (run.op \in {"seeCheckboxIsChecked", "dontSeeCheckboxIsChecked"} /\ run.els = << >>)
       => /\ run.err = "ElementNotFound"
          /\ run.msg = << "Option", Render(run.loc), "was not found by text|CSS|XPath" >>

\* Two checkboxes share a name, one is checked and the other is not:
\* seeCheckboxIsChecked on the name succeeds.
C17_Witness ==
    /\ run.op = "seeCheckboxIsChecked" /\ run.loc = Str("", "option")
    /\ run.els = DocOrder
    /\ dom["n1"].name = "option" /\ dom["n2"].name = "option"
    /\ dom["n1"].selected /\ ~ dom["n2"].selected
    /\ run.status = "resolved"
\* The operations on a field that assert the field exists.
AssertingFieldOps == {"appendField", "clearField", "grabValueFrom"}

\* C22: fillField on a locator whose field chain gives no match fails with the
\* same ElementNotFound error (prefix 'Field', the locator's text in the
\* message) as appendField, clearField and grabValueFrom do, and performs no
\* clear and no sendKeys.
C22_FillFieldReportsNotFound ==
    (run.op \in AssertingFieldOps \cup {"fillField"} /\ run.els = << >>)
    => /\ run.status = "rejected" /\ run.err = "ElementNotFound"
       /\ run.msg = << "Field", Render(run.loc), "was not found by text|CSS|XPath" >>
       /\ run.did = << >>

\* C23: doubleClick(locator, context) resolves its target as click(locator,
\* context) does: with a context the clickable chain runs on the resolved
\* context element, so on every page both select the same element or both fail.
C23_DoubleClickResolvesAsClick ==
    run.op = "doubleClick"
    => /\ run.els = ClickOutcome(run.loc, run.ctx).els
       /\ run.err = "none" <=> ClickOutcome(run.loc, run.ctx).err = "none"

\* C24: checkOption is idempotent on the first matched element: it clicks that
\* element exactly when it is not selected, so after a call, whatever calls came
\* before it, the element is selected and a selected element is never toggled
\* back; no other element is touched; and when the resolver matches nothing the
\* call fails with ElementNotFound, prefix "Checkbox or radio", and clicks nothing.
C24_CheckOptionIdempotent ==
    [][(run = NoRun /\ run'.op = "checkOption")
       => /\ run'.status = "resolved"
             => /\ run'.els # << >>
                /\ dom'[run'.els[1]].selected
                /\ (Did(run', "click")) <=> ~ dom[run'.els[1]].selected
                /\ \A n \in Nodes \ {run'.els[1]} : dom'[n] = dom[n]
          /\ run'.status = "rejected"
             => dom' = dom /\ ~ Did(run', "click")
          /\ (run'.els = << >> /\ run'.err # "NoSuchElement")
             => /\ run'.status = "rejected" /\ run'.err = "ElementNotFound"
                /\ run'.msg = << "Checkbox or radio", Render(run'.loc),
                                 "was not found by text|CSS|XPath" >>]_vars

\* A checkOption inside a context has clicked an element that was not selected.
C24_Witness ==
    /\ run.op = "checkOption" /\ run.ctx # NoContext /\ run.status = "resolved"
    /\ Did(run, "click") /\ dom[run.els[1]].selected

----
\* Claims about see / dontSee

\* The nodes C18 has a see / dontSee call c search: the nodes of the context it
\* was given; without one the root element when no scope was active, and the
\* elements below the scoped element when one was.
SeeNodes(c) ==
    IF c.ctx # "none"
    THEN Matches(IF c.pre.elsFn.kind = "scoped" THEN c.pre.elsFn.el ELSE "body", c.ctx)
    ELSE IF c.pre.elsFn.kind = "scoped" THEN Answer(c.pre.elsFn.el, AllBelow)
    ELSE << RootElement >>

\* C18: see and dontSee choose the nodes they search from the current scope:
\* with a context argument the nodes of that context; with none and no scope
\* active the root element 'body'; with none and a scope active the descendants
\* of the scoped element; after _withinEnd a context-less call searches the root
\* element again.  The texts of all matched nodes are concatenated and the
\* assertion is a substring test on the concatenation (see passes when the text
\* is included, dontSee when it is not).
C18_SeeSearchesCurrentScope ==
    \A s \in Helper :
        (call[s].op = "see" /\ call[s].status # "pending")
        => /\ ~ call[s].threw
           /\ call[s].result = SeeNodes(call[s])
           /\ call[s].status = "resolved"
              <=> StringIncludes(call[s].assertType, call[s].text, Source(SeeNodes(call[s])))
----
\* Claims about the browser session

\* C19: with restart = true and manualStart = false the browser is restarted
\* between tests: after _after has quit the browser the helper's hooks start a
\* new browser session, so this.isRunning is true and a browser is open whenever
\* the operations of a test run.
C19_BrowserRunsDuringTests ==
    (opts.restart /\ ~ opts.manualStart /\ phase = "test")
    => isRunning /\ browser.open

\* C20: when restart = false and the browser is running, _after never quits the
\* browser and never changes isRunning; with keepBrowserState it clears nothing;
\* otherwise with keepCookies it deletes no cookies, clears localStorage and
\* closes the other tabs; otherwise it deletes all cookies, clears localStorage
\* and closes the other tabs.  When the browser is not running _after does
\* nothing.
C20_AfterKeepsWhatIsConfigured ==
    [][After
       => /\ (~ opts.restart /\ isRunning)
             => /\ isRunning' = isRunning
                /\ browser'.open = browser.open
                /\ IF opts.keepBrowserState THEN browser' = browser
                   ELSE /\ browser'.cookies = (opts.keepCookies /\ browser.cookies)
                        /\ browser'.storage = FALSE
                        /\ browser'.tabs = 1
          /\ ~ isRunning => UNCHANGED << isRunning, browser >>]_vars
\* C25: in every state the lifecycle hooks (_beforeSuite, _startBrowser, _after,
\* _finishTest, _failed) can reach, this.isRunning is true exactly when a
\* browser session has been started and not yet quit, and so browser.quit() is
\* never called twice on the same started session.
C25_IsRunningTracksSession ==
    /\ isRunning <=> browser.open
    /\ browser.quits <= 1
====
